---- MODULE Spec2Model ----
(***************************************************************************)
(* Client-side contact synchronisation of the campaign dashboard.          *)
(*                                                                         *)
(* Two implementations of the CampaignManager component are in the         *)
(* repository: the stand-alone component (components/CampaignManager.jsx)  *)
(* and the one written inline in the older App.js.  The variable impl      *)
(* says which of the two is mounted; every handler below is translated     *)
(* from both and branches on impl where they differ.                       *)
(***************************************************************************)
EXTENDS Integers, Sequences, FiniteSets, TLC

VARIABLES
    impl,             \* "component" (CampaignManager.jsx) or "inline" (App.js)
    lifecycle,        \* "initial" (rendered, effects not run), "mounted", "unmounted"
    page,             \* useState(1)
    contactsPerPage,  \* useState(50)
    contacts,         \* useState([]): the locally held page of records
    totalContacts,    \* useState(0)
    loading,          \* useState(true)
    message,          \* useState(''): "", "fetch_failed", "dnc_failed"
    isError,          \* useState(false)
    wsCurrent,        \* ws.current: the socket it refers to, NoSocket = null
    socks,            \* the WebSockets whose close event is still to come
    effects,          \* every run of the WebSockets effect: its closure variables
    timers,           \* pending setTimeout(connectContactsWs, ...) callbacks
    fetches,          \* GET /contacts requests in flight, per page window
    puts,             \* PUT /contacts/{id}/dnc requests in flight, per id
    script,           \* push messages queued for delivery in a scripted run
    scenario,         \* the inputs a scripted run was started from
    cache,            \* App.js: const cache = new Map(), per URL
    now,              \* Date.now(), in milliseconds
    wire,             \* requests handed to the network, per method and URL
    reply,            \* what the latest settled axios call returned
    tz,               \* the time zone of the browser
    startDate,        \* FileUploadView: useState(''), a day once chosen
    endDate,          \* FileUploadView: useState('')
    chunkDays,        \* FileUploadView: useState(7), in half days
    caller,           \* the handler that planned the batch windows
    pc,               \* "idle", "loop" (inside computeChunks), "done", "rejected"
    cur,              \* computeChunks: let cur, in minutes since day 0, 00:00 UTC
    end,              \* computeChunks: const end
    days,             \* computeChunks: the days argument, in half days
    chunks,           \* computeChunks: const chunks
    remote,           \* the contacts service: the version of its collection
    files,            \* FileUploadView: useState([]), the selected files
    autoClear,        \* FileUploadView: useState(false)
    uploadLoading,    \* FileUploadView: loading, useState(false)
    progress,         \* FileUploadView: useState(0), a percentage
    controllerRef,    \* controllerRef.current: the upload it can abort, 0 = null
    posts,            \* POST /leads/upload requests not yet settled
    resets,           \* pending setTimeout(() => setProgress(0), 600) callbacks
    uploadMessage,    \* FileUploadView: message, useState('')
    rids,             \* how many uploads were started
    selectedContacts, \* CampaignManager: useState([]), the ids ticked
    sends,            \* POST /campaigns/send-now and /schedule not yet settled
    pulls             \* POST /indiamart/pull/batch requests not yet settled

vars == <<impl, lifecycle, page, contactsPerPage, contacts, totalContacts,
          loading, message, isError, wsCurrent, socks, effects, timers,
          fetches, puts, script, scenario,
          cache, now, wire, reply,
          tz, startDate, endDate, chunkDays, caller, pc, cur, end, days, chunks,
          remote, files, autoClear, uploadLoading, progress, controllerRef,
          posts, resets, uploadMessage, rids, selectedContacts, sends, pulls>>

view == <<page, contactsPerPage, contacts, totalContacts, loading, message, isError>>
conn == <<wsCurrent, socks, effects, timers>>
ghost == <<script, scenario>>
campaign == <<selectedContacts, sends>>
axios == <<cache, now, wire, reply, remote>>
transfer == <<files, autoClear, uploadLoading, progress, controllerRef, posts,
              resets, uploadMessage, rids, pulls>>
upload == <<tz, startDate, endDate, chunkDays, caller, pc, cur, end, days, chunks,
            transfer>>
manager == <<impl, lifecycle, view, conn, fetches, puts, ghost, campaign>>

----------------------------------------------------------------------------
(* Bounds of the model *)

MaxId == 2              \* contact ids 1..MaxId
MaxRows == 2            \* rows in a snapshot page
MaxTotal == 2           \* small totals a snapshot reports
MaxBelowZero == 1       \* how far below zero the counter is followed
MaxInFlight == 2        \* GET /contacts requests in flight at once
MaxPuts == 2            \* PUT requests in flight at once, per id
MaxEffects == 2         \* runs of the WebSockets effect (mount + window changes)
MaxPage == 2            \* highest page number visited
MaxDrop == 1            \* deletions followed below BigTotal

(* Program constants *)

maxRetries == 5
BaseDelay == 500
InitialPerPage == 50
BigTotal == 51          \* a reported total that spans two pages of 50

Ids == 1..MaxId
Names == {"a", "b"}
Fields == {"name", "dnc"}

PageSizes(i) == IF i = "component" THEN {25, 50, 100} ELSE {10, 50, 100}

ContactRecord == [id : Ids, name : Names, dnc : BOOLEAN]

----------------------------------------------------------------------------
(* Sequences of records *)

RECURSIVE SeqMap(_, _)
SeqMap(F(_), s) ==
    IF s = <<>> THEN <<>> ELSE <<F(Head(s))>> \o SeqMap(F, Tail(s))

RECURSIVE SeqFilter(_, _)
SeqFilter(P(_), s) ==
    IF s = <<>> THEN <<>>
    ELSE (IF P(Head(s)) THEN <<Head(s)>> ELSE <<>>) \o SeqFilter(P, Tail(s))

IdsOf(list) == {list[k].id : k \in 1..Len(list)}

HasId(list, id) == id \in IdsOf(list)

DistinctIds(list) == \A j, k \in 1..Len(list) : list[j].id = list[k].id => j = k

Max(a, b) == IF a >= b THEN a ELSE b

----------------------------------------------------------------------------
(* Push messages: the envelope {event, data} of the contacts channel.      *)
(* data of contact_updated is a partial record: fields names the keys it   *)
(* carries besides id; a key it does not carry is held at a fixed value.   *)

UpdatePayload ==
    {d \in [id : Ids, fields : SUBSET Fields, name : Names, dnc : BOOLEAN] :
        /\ ("name" \notin d.fields => d.name = "a")
        /\ ("dnc" \notin d.fields => d.dnc = FALSE)}

Added(n) == [event |-> "contacts_added", count |-> n]
Updated(d) == [event |-> "contact_updated", data |-> d]
Deleted(id) == [event |-> "contact_deleted", id |-> id]
Unknown == [event |-> "other"]

Messages ==
    {Added(1), Unknown} \cup {Updated(d) : d \in UpdatePayload}
                        \cup {Deleted(id) : id \in Ids}

(* a variant that takes the pushed record in place of the held one *)
MergeReplacing(c, data) == [id |-> data.id, name |-> data.name, dnc |-> data.dnc]

(* { ...c, ...data }: every key of data overwrites, the others are kept *)
Merge(c, data) ==
    [id   |-> data.id,
     name |-> IF "name" \in data.fields THEN data.name ELSE c.name,
     dnc  |-> IF "dnc" \in data.fields THEN data.dnc ELSE c.dnc]

(* a variant that inserts the record when its id is not held *)
UpdatedTableUpsert(prev, data) ==
    IF HasId(prev, data.id)
    THEN LET F(c) == IF c.id = data.id THEN Merge(c, data) ELSE c
         IN  SeqMap(F, prev)
    ELSE Append(prev, [id |-> data.id, name |-> data.name, dnc |-> data.dnc])

(* prev.map((c) => (c.id === data.id ? { ...c, ...data } : c)) *)
UpdatedTable(prev, data) ==
    LET F(c) == IF c.id = data.id THEN Merge(c, data) ELSE c
    IN  SeqMap(F, prev)

(* prev.filter((c) => c.id !== data.id) *)
DeletedTable(prev, id) ==
    LET P(c) == c.id # id
    IN  SeqFilter(P, prev)

(* setTotalContacts((t) => Math.max(0, t - 1))  /  setTotalContacts((t) => t - 1) *)
DeletedTotal(i, t) == IF i = "component" THEN Max(0, t - 1) ELSE t - 1

(* prev.map((c) => (c.id === contactId ? { ...c, dnc: !c.dnc } : c)) *)
ToggledTable(prev, contactId) ==
    LET F(c) == IF c.id = contactId THEN [c EXCEPT !.dnc = ~c.dnc] ELSE c
    IN  SeqMap(F, prev)

(* setTotalContacts(data.total || list.length || 0) *)
SnapshotTotal(data) == IF data.total # 0 THEN data.total ELSE Len(data.contacts)

(* Math.ceil(totalContacts / contactsPerPage), 1 when the total is 0 *)
CeilDiv(a, b) == (a + b - 1) \div b
totalPages == IF totalContacts # 0 THEN CeilDiv(totalContacts, contactsPerPage) ELSE 1

----------------------------------------------------------------------------
(* Requests in flight *)

Windows == [page : 1..MaxPage, perPage : {10, 25, 50, 100}]

RECURSIVE SumOver(_, _)
SumOver(f, S) ==
    IF S = {} THEN 0
    ELSE LET x == CHOOSE y \in S : TRUE
         IN  f[x] + SumOver(f, S \ {x})

InFlight == SumOver(fetches, Windows)

(* the model follows a handler that calls fetchContacts only while another *)
(* request fits in the bound                                               *)
CanFetch == InFlight < MaxInFlight

live == lifecycle = "mounted"

Window(e) == [page |-> effects[e].page, perPage |-> effects[e].perPage]

CurrentWindow == [page |-> page, perPage |-> contactsPerPage]

(* fetchContacts up to its await: setLoading(true); axios.get(url) *)
Issued(f, w) == [f EXCEPT ![w] = @ + 1]

----------------------------------------------------------------------------
(* The WebSockets effect: connectContactsWs, its handlers and its cleanup  *)

(* a variant with a constant delay *)
ReconnectDelayFlat(retry) == BaseDelay

(* setTimeout(connectContactsWs, 500 * retry) *)
ReconnectDelay(retry) == BaseDelay * retry

(* a variant that allows one more attempt *)
ShouldReconnectInclusive(retry) == retry <= maxRetries

(* if (retry < maxRetries) *)
ShouldReconnect(retry) == retry < maxRetries

NewEffect(p, n) ==
    [page |-> p, perPage |-> n, retry |-> 0, reconnectTimeout |-> 0,
     degraded |-> FALSE, cleaned |-> FALSE]

(* A socket is named by the effect run that created it and by the value   *)
(* of that run's retry counter when connectContactsWs was called.          *)
NoSocket == [owner |-> 0, n |-> 0]

Ref(s) == [owner |-> s.owner, n |-> s.n]

NewSocket(e, n) == [owner |-> e, n |-> n, state |-> "connecting"]

(* WebSocket.close(): a socket that is connecting is aborted, an open one  *)
(* starts the closing handshake, a closing or closed one is left alone;    *)
(* the close event is delivered later                                      *)
Close(sk, ref) ==
    {IF Ref(s) # ref THEN s
     ELSE [s EXCEPT !.state = IF @ = "connecting" THEN "aborting"
                              ELSE IF @ = "open" THEN "closing" ELSE @] :
     s \in sk}

(* the cleanup the effect returns:                                         *)
(*   if (ws.current) ws.current.close(); clearTimeout(reconnectTimeout)    *)
CleanupSocks(sk) == Close(sk, wsCurrent)

CleanupTimers(e) ==
    {t \in timers : ~(t.owner = e /\ t.n = effects[e].reconnectTimeout)}

(* the effect body: connectContactsWs(); fetchContacts()                   *)
(* run for window (p, n) after the cleanup of the previous run, if any     *)
RunEffect(p, n, sk, tm, ef) ==
    LET w == [page |-> p, perPage |-> n]
    IN  /\ Len(effects) < MaxEffects
        /\ CanFetch
        /\ effects' = Append(ef, NewEffect(p, n))
        /\ socks' = sk \cup {NewSocket(Len(ef) + 1, 0)}
        /\ wsCurrent' = [owner |-> Len(ef) + 1, n |-> 0]
        /\ timers' = tm
        /\ fetches' = Issued(fetches, w)
        /\ loading' = TRUE

Current == Len(effects)

Cleaned == [effects EXCEPT ![Current].cleaned = TRUE]

(* first commit: the effect runs for page 1, 50 per page *)
Mount ==
    /\ lifecycle = "initial"
    /\ lifecycle' = "mounted"
    /\ RunEffect(page, contactsPerPage, socks, timers, effects)
    /\ UNCHANGED <<impl, campaign, axios, upload, page, contactsPerPage, contacts, totalContacts,
                   message, isError, puts, ghost>>

(* a change of page or page size gives fetchContacts a new identity: the   *)
(* effect's cleanup runs, then the effect runs again                       *)
Rerun(p, n) ==
    /\ page' = p
    /\ contactsPerPage' = n
    /\ RunEffect(p, n, CleanupSocks(socks), CleanupTimers(Current), Cleaned)
    /\ UNCHANGED <<impl, campaign, axios, upload, lifecycle, contacts, totalContacts, message, isError,
                   puts, ghost>>

(* <Select onChange={(e) => setContactsPerPage(Number(e.target.value))}> *)
SetContactsPerPage(n) ==
    /\ live
    /\ n \in PageSizes(impl) \ {contactsPerPage}
    /\ Rerun(page, n)

(* <Button disabled={page === totalPages || loading} onClick={() => setPage(page + 1)}> *)
NextPage ==
    /\ live
    /\ ~loading
    /\ page # totalPages
    /\ page < MaxPage
    /\ Rerun(page + 1, contactsPerPage)

(* <Button disabled={page === 1 || loading} onClick={() => setPage(page - 1)}> *)
PrevPage ==
    /\ live
    /\ ~loading
    /\ page # 1
    /\ Rerun(page - 1, contactsPerPage)

(* unmount: the cleanup runs and nothing is set up again *)
Unmount ==
    /\ live
    /\ lifecycle' = "unmounted"
    /\ socks' = CleanupSocks(socks)
    /\ timers' = CleanupTimers(Current)
    /\ effects' = Cleaned
    /\ UNCHANGED <<impl, campaign, axios, upload, view, wsCurrent, fetches, puts, ghost>>

----------------------------------------------------------------------------
(* Socket events *)

(* ws.current.onopen = () => { infoToast(...); fetchContacts(); } *)
SockOpened(s) ==
    /\ s \in socks
    /\ s.state = "connecting"
    /\ CanFetch
    /\ socks' = (socks \ {s}) \cup {[s EXCEPT !.state = "open"]}
    /\ fetches' = Issued(fetches, Window(s.owner))
    /\ loading' = IF live THEN TRUE ELSE loading
    /\ UNCHANGED <<impl, campaign, axios, upload, lifecycle, page, contactsPerPage, contacts,
                   totalContacts, message, isError, wsCurrent, effects, timers,
                   puts, ghost>>

(* ws.current.onclose of a socket of effect run e:                         *)
(*   if (retry < maxRetries) { retry++; reconnectTimeout = setTimeout(..) } *)
(*   else { toast.warn('WS failed, falling back to HTTP'); fetchContacts() } *)
OnClose(e) ==
    IF ShouldReconnect(effects[e].retry)
    THEN LET n == effects[e].retry + 1
         IN  /\ effects' = [effects EXCEPT ![e].retry = n,
                                           ![e].reconnectTimeout = n]
             /\ timers' = timers \cup
                    {[owner |-> e, n |-> n, delay |-> ReconnectDelay(n)]}
             /\ UNCHANGED <<fetches, loading>>
    ELSE /\ CanFetch
         /\ effects' = [effects EXCEPT ![e].degraded = TRUE]
         /\ fetches' = Issued(fetches, Window(e))
         /\ loading' = IF live THEN TRUE ELSE loading
         /\ UNCHANGED timers

(* The connection of socket s ends: the browser sets it CLOSED and fires   *)
(* its error event (when the connection failed) and then its close event.  *)
(*   ws.current.onerror = () => ws.current && ws.current.close()           *)
SockClosed(s, err) ==
    /\ s \in socks
    /\ s.state \in {"connecting", "aborting"} => err
    /\ LET rest == socks \ {s}
       IN  socks' = IF err THEN Close(rest, wsCurrent) ELSE rest
    /\ OnClose(s.owner)
    /\ UNCHANGED <<impl, campaign, axios, upload, lifecycle, page, contactsPerPage, contacts,
                   totalContacts, message, isError, wsCurrent, puts, ghost>>

(* the reconnect timer fires: connectContactsWs() of the run that set it   *)
(*   ws.current = new WebSocket(...)                                        *)
ReconnectTimer(t) ==
    /\ t \in timers
    /\ timers' = timers \ {t}
    /\ socks' = socks \cup {NewSocket(t.owner, t.n)}
    /\ wsCurrent' = [owner |-> t.owner, n |-> t.n]
    /\ UNCHANGED <<impl, campaign, axios, upload, lifecycle, view, effects, fetches, puts, ghost>>

(* deletions are followed near zero and just below a page boundary *)
TotalsFollowed ==
    ((0 - MaxBelowZero)..MaxTotal) \cup ((BigTotal - MaxDrop)..BigTotal)

(* ws.current.onmessage of an open socket s, for a parsed message m *)
Handle(s, m) ==
    /\ s \in socks
    /\ s.state = "open"
    /\ CASE m.event = "contacts_added" ->
              /\ CanFetch
              /\ fetches' = Issued(fetches, Window(s.owner))
              /\ loading' = IF live THEN TRUE ELSE loading
              /\ UNCHANGED <<contacts, totalContacts>>
         [] m.event = "contact_updated" ->
              /\ contacts' = IF live THEN UpdatedTable(contacts, m.data)
                             ELSE contacts
              /\ UNCHANGED <<totalContacts, fetches, loading>>
         [] m.event = "contact_deleted" ->
              /\ DeletedTotal(impl, totalContacts) \in TotalsFollowed
              /\ contacts' = IF live THEN DeletedTable(contacts, m.id)
                             ELSE contacts
              /\ totalContacts' = IF live THEN DeletedTotal(impl, totalContacts)
                                  ELSE totalContacts
              /\ UNCHANGED <<fetches, loading>>
         [] OTHER ->
              UNCHANGED <<contacts, totalContacts, fetches, loading>>
    /\ UNCHANGED <<impl, campaign, axios, upload, lifecycle, page, contactsPerPage, message, isError,
                   conn, puts>>

OnMessage(s, m) == Handle(s, m) /\ UNCHANGED ghost

----------------------------------------------------------------------------
(* Snapshot fetches *)

RECURSIVE ListsOver(_, _)
ListsOver(S, n) ==
    IF n = 0 THEN {<<>>}
    ELSE LET shorter == ListsOver(S, n - 1)
         IN  shorter \cup {Append(l, x) : l \in shorter, x \in S}

Pages == {l \in ListsOver(ContactRecord, MaxRows) : DistinctIds(l)}

SnapTotals == (0..MaxTotal) \cup {BigTotal}

(* the body of a successful GET /contacts: { contacts, total } *)
Snapshots == [contacts : Pages, total : SnapTotals]

(* a variant that keeps the rows already held *)
SnapshotTableAppending(prev, list) == prev \o list

(* const list = data.contacts || []; setContacts(list) *)
SnapshotTable(prev, list) == list

(* fetchContacts after a successful await:                                 *)
(*   setContacts(list); setTotalContacts(data.total || list.length || 0);  *)
(*   setLoading(false)                                                     *)
FetchResolved(w, data) ==
    /\ fetches[w] > 0
    /\ fetches' = [fetches EXCEPT ![w] = @ - 1]
    /\ IF live
       THEN /\ contacts' = SnapshotTable(contacts, data.contacts)
            /\ totalContacts' = SnapshotTotal(data)
            /\ loading' = FALSE
       ELSE UNCHANGED <<contacts, totalContacts, loading>>
    /\ UNCHANGED <<impl, campaign, axios, upload, lifecycle, page, contactsPerPage, message, isError,
                   conn, puts, ghost>>

(* a variant whose catch branch empties the table *)
FetchRejectedClearing(w) ==
    /\ fetches[w] > 0
    /\ fetches' = [fetches EXCEPT ![w] = @ - 1]
    /\ IF live
       THEN /\ message' = "fetch_failed"
            /\ isError' = TRUE
            /\ loading' = FALSE
            /\ contacts' = <<>>
            /\ totalContacts' = 0
       ELSE UNCHANGED <<message, isError, loading, contacts, totalContacts>>
    /\ UNCHANGED <<impl, campaign, axios, upload, lifecycle, page, contactsPerPage, conn, puts, ghost>>

(* fetchContacts, catch branch:                                            *)
(*   setMessage(`Failed to fetch contacts: ...`); setIsError(true);        *)
(*   setLoading(false)                                                     *)
FetchRejected(w) ==
    /\ fetches[w] > 0
    /\ fetches' = [fetches EXCEPT ![w] = @ - 1]
    /\ IF live
       THEN /\ message' = "fetch_failed"
            /\ isError' = TRUE
            /\ loading' = FALSE
       ELSE UNCHANGED <<message, isError, loading>>
    /\ UNCHANGED <<impl, campaign, axios, upload, lifecycle, page, contactsPerPage, contacts,
                   totalContacts, conn, puts, ghost>>

(* component: <Button onClick={fetchContacts} disabled={loading}>          *)
(* inline:    handleRetryFetch, on a button that is never disabled         *)
RetryFetch ==
    /\ live
    /\ CanFetch
    /\ IF impl = "component"
       THEN ~loading /\ UNCHANGED <<message, isError>>
       ELSE message' = "" /\ isError' = FALSE
    /\ fetches' = Issued(fetches, CurrentWindow)
    /\ loading' = TRUE
    /\ UNCHANGED <<impl, campaign, axios, upload, lifecycle, page, contactsPerPage, contacts,
                   totalContacts, conn, puts, ghost>>

----------------------------------------------------------------------------
(* Do-not-contact toggles.  puts[id] holds one entry per PUT in flight for *)
(* id: whether handleDncToggle has flipped the local flag for that call.   *)

Without(q, k) == SubSeq(q, 1, k - 1) \o SubSeq(q, k + 1, Len(q))

(* the DNC button of a rendered row: rows are rendered when !loading       *)
(* component: await axios.put(...) first, the flip follows its success     *)
(* inline:    setContacts(flip) first, then await axios.put(...)           *)
HandleDncToggle(contactId) ==
    /\ live
    /\ ~loading
    /\ HasId(contacts, contactId)
    /\ Len(puts[contactId]) < MaxPuts
    /\ IF impl = "component"
       THEN /\ puts' = [puts EXCEPT ![contactId] = Append(@, FALSE)]
            /\ UNCHANGED contacts
       ELSE /\ puts' = [puts EXCEPT ![contactId] = Append(@, TRUE)]
            /\ contacts' = ToggledTable(contacts, contactId)
    /\ UNCHANGED <<impl, campaign, axios, upload, lifecycle, page, contactsPerPage, totalContacts,
                   loading, message, isError, conn, fetches, ghost>>

(* the PUT succeeds: the component flips the flag now; okToast *)
PutResolved(contactId, k) ==
    /\ k \in 1..Len(puts[contactId])
    /\ puts' = [puts EXCEPT ![contactId] = Without(@, k)]
    /\ contacts' = IF live /\ ~puts[contactId][k]
                   THEN ToggledTable(contacts, contactId)
                   ELSE contacts
    /\ UNCHANGED <<impl, campaign, axios, upload, lifecycle, page, contactsPerPage, totalContacts,
                   loading, message, isError, conn, fetches, ghost>>

(* the PUT fails: setMessage(`DNC update failed: ...`); setIsError(true) *)
PutRejected(contactId, k) ==
    /\ k \in 1..Len(puts[contactId])
    /\ puts' = [puts EXCEPT ![contactId] = Without(@, k)]
    /\ IF live
       THEN message' = "dnc_failed" /\ isError' = TRUE
       ELSE UNCHANGED <<message, isError>>
    /\ UNCHANGED <<impl, campaign, axios, upload, lifecycle, page, contactsPerPage, contacts,
                   totalContacts, loading, conn, fetches, ghost>>

----------------------------------------------------------------------------
(* The response cache of App.js: a Map from URL to { data, timestamp }     *)
(* read by the axios request interceptor and written by the response       *)
(* interceptor.                                                            *)

TTL == 60000            \* Date.now() - cached.timestamp < 60_000

MaxPayload == 2         \* distinct response bodies a server returns
MaxOnWire == 2          \* requests handed to the network at once

Urls == {"/contacts?page=1&per_page=50", "/campaigns"}
Methods == {"get", "put", "post"}
Payloads == 1..MaxPayload
Requests == Methods \X Urls

(* the values of Date.now() the model visits: around 10 s, 60 s and 65 s   *)
Instants == {0, 10000, TTL - 1, TTL, 65000}

NoEntry == [has |-> FALSE, data |-> 0, timestamp |-> 0]
NoReply == [kind |-> "none"]

OnWire == SumOver(wire, Requests)

(* a variant that treats every method as a read *)
CacheableAny(method) == TRUE

(* config.method === 'get' *)
Cacheable(method) == method = "get"

(* a variant that still serves an entry of exactly 60 s *)
FreshInclusive(entry, t) == t - entry.timestamp <= TTL

(* Date.now() - cached.timestamp < 60_000 *)
Fresh(entry, t) == t - entry.timestamp < TTL

(* time passes *)
Tick(t) ==
    /\ t \in Instants
    /\ t > now
    /\ now' = t
    /\ UNCHANGED <<manager, upload, remote, cache, wire, reply>>

(* an axios call enters the request interceptor:                           *)
(*   if (config.method === 'get' && cache.has(config.url)) {               *)
(*     if (fresh) return Promise.reject({ __fromCache: true, data, config }) *)
(*   } return config                                                       *)
(* the rejection skips the network and is turned into a resolved           *)
(* { data, config } by the error half of the response interceptor          *)
Request(method, url) ==
    /\ IF Cacheable(method) /\ cache[url].has /\ Fresh(cache[url], now)
       THEN /\ reply' = [kind |-> "cached", method |-> method, url |-> url,
                         data |-> cache[url].data]
            /\ UNCHANGED wire
       ELSE /\ OnWire < MaxOnWire
            /\ wire' = [wire EXCEPT ![<<method, url>>] = @ + 1]
            /\ UNCHANGED reply
    /\ UNCHANGED <<manager, upload, remote, cache, now>>

(* a response arrives from the network: the response interceptor           *)
(*   if (response.config.method === 'get')                                 *)
(*     cache.set(url, { data: response.data, timestamp: Date.now() })      *)
Respond(method, url, payload) ==
    /\ wire[<<method, url>>] > 0
    /\ wire' = [wire EXCEPT ![<<method, url>>] = @ - 1]
    /\ cache' = IF Cacheable(method)
                THEN [cache EXCEPT ![url] = [has |-> TRUE, data |-> payload,
                                             timestamp |-> now]]
                ELSE cache
    /\ reply' = [kind |-> "network", method |-> method, url |-> url,
                 data |-> payload]
    /\ UNCHANGED <<manager, upload, remote, now>>

(* the network call fails: (error) => Promise.reject(error) *)
Fail(method, url) ==
    /\ wire[<<method, url>>] > 0
    /\ wire' = [wire EXCEPT ![<<method, url>>] = @ - 1]
    /\ reply' = [kind |-> "error", method |-> method, url |-> url, data |-> 0]
    /\ UNCHANGED <<manager, upload, remote, cache, now>>

(* module scope of App.js: const cache = new Map() *)
AxiosInit ==
    /\ cache = [u \in Urls |-> NoEntry]
    /\ now = 0
    /\ wire = [r \in Requests |-> 0]
    /\ reply = NoReply
    /\ remote = 1

----------------------------------------------------------------------------
(* The batch window planner of FileUploadView: computeChunks and its       *)
(* callers.  A Date is its time value in minutes since 00:00 UTC of day 0; *)
(* a date string 'YYYY-MM-DD' is the number of its day.  chunkDays and the *)
(* days argument are JavaScript numbers, held here in half days, so that   *)
(* 5 stands for 2.5.                                                       *)

MaxDay == 9             \* date strings are the days 0..MaxDay
DstDay == 4             \* the day on which a zone with DST changes its clocks

MinWindow == 1          \* Math.max(1, ...)
MaxWindow == 30         \* Math.min(30, ...)
DefaultWindow == 7      \* Number(chunkDays) || 7

MaxChunks == MaxDay + 2 \* chunks computeChunks is followed for

MinutesPerDay == 24 * 60

Days == 0..MaxDay
NoDate == 0 - 1         \* '' : no date chosen

Min(a, b) == IF a <= b THEN a ELSE b

(* Time zones: base is the offset from UTC in minutes, shift the change of *)
(* the offset at the instant at (minutes since day 0)                      *)
Utc == [name |-> "UTC", base |-> 0, shift |-> 0, at |-> 0]
Kolkata == [name |-> "Asia/Kolkata", base |-> 330, shift |-> 0, at |-> 0]
NewYork ==
    [name |-> "America/New_York", base |-> 0 - 300, shift |-> 60,
     at |-> DstDay * MinutesPerDay + 420]
Berlin ==
    [name |-> "Europe/Berlin", base |-> 60, shift |-> 60,
     at |-> DstDay * MinutesPerDay + 60]
Zones == {Utc, Kolkata, NewYork, Berlin}

(* the offset of local time at the instant t *)
Offset(z, t) == z.base + (IF t >= z.at THEN z.shift ELSE 0)

(* ECMAScript LocalTime(t) *)
LocalTime(z, t) == t + Offset(z, t)

(* ECMAScript UTC(t): a local time that exists twice is the earlier        *)
(* instant, one that is skipped is read with the offset before the change  *)
UTCOf(z, local) ==
    LET early == local - z.base
        late == local - z.base - z.shift
    IN  IF early < z.at THEN early
        ELSE IF late >= z.at THEN late ELSE early

(* new Date('YYYY-MM-DD'): a date-only string is midnight UTC *)
ParseDate(d) == d * MinutesPerDay

(* d.toISOString().slice(0, 10): the UTC day *)
ISODate(t) == t \div MinutesPerDay

(* d.setDate(d.getDate() + x) for x = h / 2: the day of the month of the   *)
(* local time moves by the integer part of getDate() + x, the local time   *)
(* of day is kept.  getDate() is at least 1, so for x >= 0 the integer     *)
(* part of the sum is getDate() + floor(x).                                *)
SetDate(z, t, h) == UTCOf(z, LocalTime(z, t) + (h \div 2) * MinutesPerDay)

(* a variant without the clamp *)
ClampDaysNone(h) == h

(* Math.max(1, Math.min(30, Number(chunkDays) || 7)) *)
ClampDays(h) ==
    LET n == IF h = 0 THEN 2 * DefaultWindow ELSE h
    IN  Max(2 * MinWindow, Min(2 * MaxWindow, n))

(* if (!startDate || !endDate) return false;                              *)
(* return new Date(startDate) <= new Date(endDate)                        *)
validateDates ==
    /\ startDate # NoDate
    /\ endDate # NoDate
    /\ ParseDate(startDate) <= ParseDate(endDate)

(* a variant that tests the cursor the other way round *)
InRangeReversed(c, e) == c >= e

(* while (cur <= end) *)
InRange(c, e) == c <= e

WholeWindows == {2 * w : w \in MinWindow..MaxWindow}

(* the values chunkDays can hold: typed values are clamped to [1, 30] but  *)
(* may be fractional, a value restored from localStorage is any number     *)
SavedChunkDays == {0 - 2, 0, 1, 3, 5, 2 * MaxWindow + 1, 200} \cup WholeWindows

(* computeChunks(startDate, endDate, h) is entered:                        *)
(*   const chunks = []; let cur = new Date(s); const end = new Date(e)     *)
Enter(c, h) ==
    /\ pc = "idle"
    /\ caller' = c
    /\ pc' = "loop"
    /\ cur' = ParseDate(startDate)
    /\ end' = ParseDate(endDate)
    /\ days' = h
    /\ chunks' = <<>>
    /\ UNCHANGED <<manager, axios, transfer, tz, startDate, endDate, chunkDays>>

(* errToast('Select a valid date range first'); return *)
Reject(c) ==
    /\ pc = "idle"
    /\ caller' = c
    /\ pc' = "rejected"
    /\ UNCHANGED <<manager, axios, transfer, tz, startDate, endDate, chunkDays,
                   cur, end, days, chunks>>

(* the function itself, called with two dates and a window of 1..30 days *)
ComputeChunks ==
    /\ startDate # NoDate
    /\ endDate # NoDate
    /\ chunkDays \in WholeWindows
    /\ Enter("computeChunks", chunkDays)

PreviewChunks ==
    IF validateDates THEN Enter("previewChunks", ClampDays(chunkDays))
    ELSE Reject("previewChunks")

ExportChunks ==
    IF validateDates THEN Enter("exportChunks", ClampDays(chunkDays))
    ELSE Reject("exportChunks")

HandlePullApi ==
    IF validateDates THEN Enter("handlePullApi", ClampDays(chunkDays))
    ELSE Reject("handlePullApi")

(* the earlier FileUpload: the same loop written inline with + 6 and + 7 *)
HandlePullApiFixed ==
    IF validateDates THEN Enter("handlePullApiFixed", 2 * DefaultWindow)
    ELSE Reject("handlePullApiFixed")

(* one iteration of the loop:                                              *)
(*   let endChunk = new Date(cur);                                         *)
(*   endChunk.setDate(endChunk.getDate() + (days - 1));                    *)
(*   if (endChunk > end) endChunk = end;                                   *)
(*   chunks.push({ start_date: iso(cur), end_date: iso(endChunk) });       *)
(*   cur.setDate(cur.getDate() + days)                                     *)
ChunkStep ==
    /\ pc = "loop"
    /\ InRange(cur, end)
    /\ Len(chunks) < MaxChunks
    /\ LET moved == SetDate(tz, cur, days - 2)
           endChunk == IF moved > end THEN end ELSE moved
       IN  chunks' = Append(chunks, [start_date |-> ISODate(cur),
                                     end_date |-> ISODate(endChunk)])
    /\ cur' = SetDate(tz, cur, days)
    /\ UNCHANGED <<manager, axios, transfer, tz, startDate, endDate, chunkDays, caller,
                   pc, end, days>>

(* the loop condition fails: return chunks *)
ChunkReturn ==
    /\ pc = "loop"
    /\ ~InRange(cur, end)
    /\ pc' = "done"
    /\ UNCHANGED <<manager, axios, transfer, tz, startDate, endDate, chunkDays, caller,
                   cur, end, days, chunks>>

----------------------------------------------------------------------------
(* The batch pull request of handlePullApi, around its chunk planning *)

MaxPulls == 1           \* batch pull requests in flight at once

PullCallers == {"handlePullApi", "handlePullApiFixed"}

(* handlePullApi with dates that fail validateDates():                     *)
(*   setMessage('Please select valid start and end dates.');               *)
(*   setIsError(true); errToast('Invalid dates'); return                   *)
PullRefused ==
    /\ pc = "rejected"
    /\ caller \in PullCallers
    /\ uploadMessage' = "invalid_dates"
    /\ caller' = "none"
    /\ pc' = "idle"
    /\ UNCHANGED <<manager, axios, tz, startDate, endDate, chunkDays, cur, end,
                   days, chunks, files, autoClear, uploadLoading, progress,
                   controllerRef, posts, resets, rids, pulls>>

(* handlePullApi once its chunks are planned:                              *)
(*   setLoading(true); setMessage('');                                     *)
(*   axios.post(`${cfg.connector}/indiamart/pull/batch`, dateChunks)       *)
PullPosted ==
    /\ pc = "done"
    /\ caller \in PullCallers
    /\ Cardinality(pulls) < MaxPulls
    /\ uploadLoading' = TRUE
    /\ uploadMessage' = ""
    /\ pulls' = pulls \cup {[id |-> Cardinality(pulls) + 1, chunks |-> chunks]}
    /\ caller' = "none"
    /\ pc' = "idle"
    /\ cur' = 0
    /\ end' = 0
    /\ days' = 0
    /\ chunks' = <<>>
    /\ UNCHANGED <<manager, axios, tz, startDate, endDate, chunkDays, files,
                   autoClear, progress, controllerRef, posts, resets, rids>>

(* the POST succeeds: setMessage(`Scheduled ${n} batch(es) ...`);          *)
(* finally { setLoading(false) }                                           *)
PullResolved(u) ==
    /\ u \in pulls
    /\ pulls' = pulls \ {u}
    /\ uploadMessage' = "scheduled"
    /\ uploadLoading' = FALSE
    /\ UNCHANGED <<manager, axios, tz, startDate, endDate, chunkDays, caller,
                   pc, cur, end, days, chunks, files, autoClear, progress,
                   controllerRef, posts, resets, rids>>

(* a variant without the finally block *)
PullFailedBusy(u) ==
    /\ u \in pulls
    /\ pulls' = pulls \ {u}
    /\ uploadMessage' = "schedule_failed"
    /\ UNCHANGED <<manager, axios, tz, startDate, endDate, chunkDays, caller,
                   pc, cur, end, days, chunks, files, autoClear, progress,
                   controllerRef, posts, resets, rids, uploadLoading>>

(* the POST fails: setMessage(`Error scheduling: ${msg}`);                 *)
(* finally { setLoading(false) }                                           *)
PullFailed(u) ==
    /\ u \in pulls
    /\ pulls' = pulls \ {u}
    /\ uploadMessage' = "schedule_failed"
    /\ uploadLoading' = FALSE
    /\ UNCHANGED <<manager, axios, tz, startDate, endDate, chunkDays, caller,
                   pc, cur, end, days, chunks, files, autoClear, progress,
                   controllerRef, posts, resets, rids>>

----------------------------------------------------------------------------
(* File upload of FileUploadView: onFileUpload, its progress callback, its *)
(* catch and finally blocks, and cancelUpload.                             *)

MaxUploads == 2         \* uploads started in one behaviour

MaxPick == 2            \* files handed to mergeFiles in one call

ALLOWED_EXTS == {"csv", "xlsx", "txt"}
MAX_FILE_MB == 25
MAX_TOTAL_MB == 100

(* file names as their parts between the dots: a.csv, b.XLSX, c.exe, txt,  *)
(* d.txt, e.old.csv                                                        *)
FileNames == {<<"a", "csv">>, <<"b", "XLSX">>, <<"c", "exe">>, <<"txt">>,
              <<"d", "txt">>, <<"e", "old", "csv">>}

(* file sizes, in MB *)
FileSizes == {25, 26}

Files == [name : FileNames, size : FileSizes]

(* what a file input, a drop or a paste hands to mergeFiles *)
Picks == ListsOver(Files, MaxPick) \ {<<>>}

(* the files the upload is followed with *)
UploadPicks ==
    LET a == [name |-> <<"a", "csv">>, size |-> 25]
        b == [name |-> <<"b", "XLSX">>, size |-> 25]
    IN  {<<a>>, <<b>>, <<a, b>>}

(* String.prototype.toLowerCase on the extensions that occur *)
ToLowerCase(x) ==
    CASE x = "CSV" -> "csv"
      [] x = "XLSX" -> "xlsx"
      [] x = "TXT" -> "txt"
      [] OTHER -> x

(* (f.name.split('.').pop() || '').toLowerCase() *)
Ext(name) == ToLowerCase(name[Len(name)])

(* arr.reduce((acc, f) => acc + (f.size || 0), 0) / (1024 * 1024) *)
RECURSIVE TotalMB(_)
TotalMB(arr) == IF arr = <<>> THEN 0 ELSE Head(arr).size + TotalMB(Tail(arr))

(* a variant that never finds a key in the map *)
DedupHasNever(arr, f) == FALSE

(* dedup.has(f.name + f.size); for names that end in an allowed extension  *)
(* two keys are equal exactly when name and size both are                  *)
DedupHas(arr, f) ==
    \E k \in 1..Len(arr) : arr[k].name = f.name /\ arr[k].size = f.size

(* the loop of mergeFiles over the new files, arr the values of the map:   *)
(*   if (!ALLOWED_EXTS.includes(ext)) continue;                            *)
(*   if (mb > MAX_FILE_MB) continue;                                       *)
(*   if (!dedup.has(key)) dedup.set(key, f)                                *)
RECURSIVE Merged(_, _)
Merged(arr, next) ==
    IF next = <<>> THEN arr
    ELSE LET f == Head(next)
         IN  IF Ext(f.name) \notin ALLOWED_EXTS THEN Merged(arr, Tail(next))
             ELSE IF f.size > MAX_FILE_MB THEN Merged(arr, Tail(next))
             ELSE IF DedupHas(arr, f) THEN Merged(arr, Tail(next))
             ELSE Merged(Append(arr, f), Tail(next))

(* the percentages a progress event reports *)
Percentages == {40, 100}

(* controller.abort() rejects the pending axios.post; its catch and        *)
(* finally blocks run before any other event is handled                    *)
Settled == \A u \in posts : ~u.aborted

(* mergeFiles(list):                                                       *)
(*   if (newTotalMB > MAX_TOTAL_MB) { errToast(...); return; }             *)
(*   setFiles(arr); setMessage('')                                         *)
MergeFiles(list) ==
    /\ Settled
    /\ IF TotalMB(Merged(files, list)) > MAX_TOTAL_MB
       THEN UNCHANGED <<files, uploadMessage>>
       ELSE /\ files' = Merged(files, list)
            /\ uploadMessage' = ""
    /\ UNCHANGED <<manager, axios, tz, startDate, endDate, chunkDays, caller,
                   pc, cur, end, days, chunks, pulls, autoClear, uploadLoading,
                   progress, controllerRef, posts, resets, rids>>

(* a chip's onDelete: setFiles(prev => prev.filter((_, idx) => idx !== i)) *)
RemoveFile(i) ==
    /\ Settled
    /\ i \in 1..Len(files)
    /\ files' = Without(files, i)
    /\ UNCHANGED <<manager, axios, tz, startDate, endDate, chunkDays, caller,
                   pc, cur, end, days, chunks, pulls, autoClear, uploadLoading,
                   progress, controllerRef, posts, resets, uploadMessage, rids>>

(* the Clear button, disabled={loading || !files.length}: setFiles([]) *)
ClearFiles ==
    /\ Settled
    /\ ~uploadLoading
    /\ files # <<>>
    /\ files' = <<>>
    /\ UNCHANGED <<manager, axios, tz, startDate, endDate, chunkDays, caller,
                   pc, cur, end, days, chunks, pulls, autoClear, uploadLoading,
                   progress, controllerRef, posts, resets, uploadMessage, rids>>

(* the Upload button, disabled={loading || !files.length}:                 *)
(*   setLoading(true); setProgress(0); setMessage('');                     *)
(*   controllerRef.current = new AbortController(); axios.post(...)        *)
OnFileUpload ==
    /\ Settled
    /\ ~uploadLoading
    /\ files # <<>>
    /\ rids < MaxUploads
    /\ rids' = rids + 1
    /\ uploadLoading' = TRUE
    /\ progress' = 0
    /\ uploadMessage' = ""
    /\ controllerRef' = rids + 1
    /\ posts' = posts \cup {[id |-> rids + 1, aborted |-> FALSE]}
    /\ UNCHANGED <<manager, axios, tz, startDate, endDate, chunkDays, caller,
                   pc, cur, end, days, chunks, pulls, files, autoClear, resets>>

(* onUploadProgress: if (evt.total) setProgress(Math.round(...)); an       *)
(* aborted XMLHttpRequest fires no further progress event                  *)
OnUploadProgress(u, pct) ==
    /\ Settled
    /\ u \in posts
    /\ progress' = pct
    /\ UNCHANGED <<manager, axios, tz, startDate, endDate, chunkDays, caller,
                   pc, cur, end, days, chunks, pulls, files, autoClear, uploadLoading,
                   controllerRef, posts, resets, uploadMessage, rids>>

(* finally { controllerRef.current = null; setLoading(false);              *)
(*           setTimeout(() => setProgress(0), 600) }                       *)
Finally(u, canceled) ==
    /\ posts' = posts \ {u}
    /\ controllerRef' = 0
    /\ uploadLoading' = FALSE
    /\ resets' = resets \cup {[id |-> u.id, canceled |-> canceled]}

(* the POST succeeds: setMessage('Upload complete...');                    *)
(* if (autoClear) setFiles([])                                             *)
UploadResolved(u) ==
    /\ Settled
    /\ u \in posts
    /\ uploadMessage' = "complete"
    /\ files' = IF autoClear THEN <<>> ELSE files
    /\ Finally(u, FALSE)
    /\ UNCHANGED <<manager, axios, tz, startDate, endDate, chunkDays, caller,
                   pc, cur, end, days, chunks, pulls, autoClear, progress, rids>>

(* the POST fails: setMessage(`Error uploading: ...`) *)
UploadFailed(u) ==
    /\ Settled
    /\ u \in posts
    /\ uploadMessage' = "failed"
    /\ Finally(u, FALSE)
    /\ UNCHANGED <<manager, axios, tz, startDate, endDate, chunkDays, caller,
                   pc, cur, end, days, chunks, pulls, files, autoClear, progress,
                   rids>>

(* cancelUpload, from the Cancel button or the Escape key:                 *)
(*   const ctrl = controllerRef.current; if (ctrl) ctrl.abort();           *)
(*   controllerRef.current = null; setLoading(false); setProgress(0)       *)
CancelUpload ==
    /\ Settled
    /\ posts' = {IF u.id = controllerRef THEN [u EXCEPT !.aborted = TRUE]
                 ELSE u : u \in posts}
    /\ controllerRef' = 0
    /\ uploadLoading' = FALSE
    /\ progress' = 0
    /\ UNCHANGED <<manager, axios, tz, startDate, endDate, chunkDays, caller,
                   pc, cur, end, days, chunks, pulls, files, autoClear, resets,
                   uploadMessage, rids>>

(* the aborted POST rejects with a CanceledError:                          *)
(*   setMessage('Upload canceled'); setIsError(true); then finally         *)
UploadCanceled(u) ==
    /\ u \in posts
    /\ u.aborted
    /\ uploadMessage' = "canceled"
    /\ Finally(u, TRUE)
    /\ UNCHANGED <<manager, axios, tz, startDate, endDate, chunkDays, caller,
                   pc, cur, end, days, chunks, pulls, files, autoClear, progress,
                   rids>>

(* the timer set by a finally block fires: setProgress(0) *)
ProgressReset(t) ==
    /\ Settled
    /\ t \in resets
    /\ resets' = resets \ {t}
    /\ progress' = 0
    /\ UNCHANGED <<manager, axios, tz, startDate, endDate, chunkDays, caller,
                   pc, cur, end, days, chunks, pulls, files, autoClear, uploadLoading,
                   controllerRef, posts, uploadMessage, rids>>

(* no upload was started: useState([]), useState(false), useState(0),      *)
(* useRef(null), useState('')                                              *)
TransferIdle ==
    /\ files = <<>>
    /\ uploadLoading = FALSE
    /\ progress = 0
    /\ controllerRef = 0
    /\ posts = {}
    /\ resets = {}
    /\ uploadMessage = ""
    /\ rids = 0
    /\ pulls = {}

NoCall ==
    /\ caller = "none"
    /\ pc = "idle"
    /\ cur = 0
    /\ end = 0
    /\ days = 0
    /\ chunks = <<>>

(* FileUploadView as constructed: useState(''), useState(''), useState(7) *)
UploadFresh ==
    /\ startDate = NoDate
    /\ endDate = NoDate
    /\ chunkDays = 2 * DefaultWindow
    /\ autoClear = FALSE
    /\ NoCall
    /\ TransferIdle

(* FileUploadView after its preferences were restored from localStorage *)
UploadRestored ==
    /\ startDate \in Days
    /\ endDate \in Days
    /\ chunkDays \in SavedChunkDays
    /\ autoClear \in BOOLEAN
    /\ NoCall
    /\ TransferIdle

----------------------------------------------------------------------------
(* The component as constructed: useState initial values, effects not run *)

NoScenario == [kind |-> "none"]

(* nothing is ticked and no campaign request is pending *)
CampaignIdle ==
    /\ selectedContacts = {}
    /\ sends = {}

Constructed ==
    /\ lifecycle = "initial"
    /\ page = 1
    /\ contactsPerPage = InitialPerPage
    /\ contacts = <<>>
    /\ totalContacts = 0
    /\ loading = TRUE
    /\ message = ""
    /\ isError = FALSE
    /\ wsCurrent = NoSocket
    /\ socks = {}
    /\ effects = <<>>
    /\ timers = {}
    /\ CampaignIdle
    /\ fetches = [w \in Windows |-> 0]
    /\ puts = [id \in Ids |-> <<>>]

(* Selection and campaign requests of CampaignManager *)

MaxSends == 2           \* campaign requests in flight at once

Ops == {"send-now", "schedule"}

(* the rows select-all ticks: base.filter((c) => !c.dnc).map((n) => n.id) *)
Selectable(list) == {list[k].id : k \in {j \in 1..Len(list) : ~list[j].dnc}}

(* the header checkbox: every row that is not do-not-contact, or none *)
HandleSelectAllClick(checked) ==
    /\ live
    /\ selectedContacts' = IF checked THEN Selectable(contacts) ELSE {}
    /\ UNCHANGED <<impl, lifecycle, view, conn, fetches, puts, ghost, sends,
                   axios, upload>>

(* a row's checkbox, disabled={row.dnc}; the rows are replaced by          *)
(* skeletons while loading:                                                *)
(*   prev.includes(id) ? prev.filter((x) => x !== id) : [...prev, id]      *)
HandleCheckboxClick(id) ==
    /\ live
    /\ ~loading
    /\ id \in Selectable(contacts)
    /\ selectedContacts' = IF id \in selectedContacts
                           THEN selectedContacts \ {id}
                           ELSE selectedContacts \cup {id}
    /\ UNCHANGED <<impl, lifecycle, view, conn, fetches, puts, ghost, sends,
                   axios, upload>>

(* handleSubmit (op = "send-now") and handleSchedule (op = "schedule"),    *)
(* from a button, disabled={loading || !formValidNow}, or from a keyboard  *)
(* shortcut, if (!loading); the form's text fields are filled in:          *)
(*   if (issues.length) { setMessage('Fix preflight issues ...'); return } *)
(*   setLoading(true); setMessage(''); setIsError(false);                  *)
(*   axios.post(..., { ..., contact_ids: selectedContacts })               *)
HandleSend(op) ==
    /\ live
    /\ ~loading
    /\ op \in Ops
    /\ IF selectedContacts = {}
       THEN /\ message' = "preflight"
            /\ isError' = TRUE
            /\ UNCHANGED <<loading, sends>>
       ELSE /\ Cardinality(sends) < MaxSends
            /\ loading' = TRUE
            /\ message' = ""
            /\ isError' = FALSE
            /\ sends' = sends \cup
                  {[id |-> CHOOSE n \in 1..MaxSends : \A u \in sends : u.id # n,
                    op |-> op, ids |-> selectedContacts]}
    /\ UNCHANGED <<impl, lifecycle, page, contactsPerPage, contacts,
                   totalContacts, conn, fetches, puts, ghost, selectedContacts,
                   axios, upload>>

(* the POST succeeds: handleSchedule resets the form and the selection;    *)
(* handleSubmit does so in the inline implementation only;                 *)
(* finally { setLoading(false) }                                           *)
SendResolved(u) ==
    /\ u \in sends
    /\ sends' = sends \ {u}
    /\ IF live
       THEN /\ loading' = FALSE
            /\ selectedContacts' = IF u.op = "schedule" \/ impl = "inline"
                                   THEN {} ELSE selectedContacts
       ELSE UNCHANGED <<loading, selectedContacts>>
    /\ UNCHANGED <<impl, lifecycle, page, contactsPerPage, contacts,
                   totalContacts, message, isError, conn, fetches, puts, ghost,
                   axios, upload>>

(* the POST fails: setMessage(`Send error: ...`); setIsError(true);        *)
(* finally { setLoading(false) }                                           *)
SendRejected(u) ==
    /\ u \in sends
    /\ sends' = sends \ {u}
    /\ IF live
       THEN /\ loading' = FALSE
            /\ message' = "send_failed"
            /\ isError' = TRUE
       ELSE UNCHANGED <<loading, message, isError>>
    /\ UNCHANGED <<impl, lifecycle, page, contactsPerPage, contacts,
                   totalContacts, conn, fetches, puts, ghost, selectedContacts,
                   axios, upload>>

----------------------------------------------------------------------------
Init ==
    /\ impl \in {"component", "inline"}
    /\ Constructed
    /\ script = <<>>
    /\ scenario = NoScenario
    /\ AxiosInit
    /\ tz \in Zones
    /\ UploadFresh \/ UploadRestored

(* the dashboard with the upload view untouched *)
InitManager == Init /\ tz = Utc /\ UploadFresh

Next ==
    \/ Mount
    \/ \E n \in {10, 25, 50, 100} : SetContactsPerPage(n)
    \/ NextPage
    \/ PrevPage
    \/ Unmount
    \/ \E s \in socks : SockOpened(s)
    \/ \E s \in socks, err \in BOOLEAN : SockClosed(s, err)
    \/ \E t \in timers : ReconnectTimer(t)
    \/ \E s \in socks, m \in Messages : OnMessage(s, m)
    \/ \E w \in Windows, data \in Snapshots : FetchResolved(w, data)
    \/ \E w \in Windows : FetchRejected(w)
    \/ RetryFetch
    \/ \E id \in Ids : HandleDncToggle(id)
    \/ \E id \in Ids, k \in 1..MaxPuts : PutResolved(id, k)
    \/ \E id \in Ids, k \in 1..MaxPuts : PutRejected(id, k)
    \/ \E t \in Instants : Tick(t)
    \/ \E m \in Methods, u \in Urls : Request(m, u)
    \/ \E m \in Methods, u \in Urls, p \in Payloads : Respond(m, u, p)
    \/ \E m \in Methods, u \in Urls : Fail(m, u)
    \/ ComputeChunks
    \/ PreviewChunks
    \/ ExportChunks
    \/ HandlePullApi
    \/ HandlePullApiFixed
    \/ ChunkStep
    \/ ChunkReturn
    \/ \E list \in UploadPicks : MergeFiles(list)
    \/ OnFileUpload
    \/ \E u \in posts, pct \in Percentages : OnUploadProgress(u, pct)
    \/ \E u \in posts : UploadResolved(u)
    \/ \E u \in posts : UploadFailed(u)
    \/ CancelUpload
    \/ \E u \in posts : UploadCanceled(u)
    \/ \E t \in resets : ProgressReset(t)
    \/ \E i \in 1..Len(files) : RemoveFile(i)
    \/ ClearFiles

Spec == Init /\ [][Next]_vars

----------------------------------------------------------------------------
(* Restrictions of Next to one part of the environment.  Every behaviour   *)
(* of a restriction is a behaviour of Spec.                                *)

(* The channel stays up and the page window stays put: snapshots, push     *)
(* messages and do-not-contact toggles act on the table.                   *)
NextSync ==
    \/ Mount
    \/ \E s \in socks : SockOpened(s)
    \/ \E s \in socks, m \in Messages : OnMessage(s, m)
    \/ \E w \in Windows, data \in Snapshots : FetchResolved(w, data)
    \/ \E w \in Windows : FetchRejected(w)
    \/ RetryFetch
    \/ \E id \in Ids : HandleDncToggle(id)
    \/ \E id \in Ids, k \in 1..MaxPuts : PutResolved(id, k)
    \/ \E id \in Ids, k \in 1..MaxPuts : PutRejected(id, k)

SpecSync == InitManager /\ [][NextSync]_vars

(* The remote collection does not change: every snapshot is the same page, *)
(* no push message is sent and no toggle is made.                          *)
SteadySnapshot ==
    [contacts |-> <<[id |-> 1, name |-> "a", dnc |-> FALSE]>>,
     total |-> BigTotal]

(* One page window, an unreliable network: sockets open, fail and are      *)
(* closed by the server, reconnect timers fire, the user leaves.           *)
NextChannel ==
    \/ Mount
    \/ Unmount
    \/ \E s \in socks : SockOpened(s)
    \/ \E s \in socks, err \in BOOLEAN : SockClosed(s, err)
    \/ \E t \in timers : ReconnectTimer(t)
    \/ \E w \in Windows : FetchResolved(w, SteadySnapshot)
    \/ \E w \in Windows : FetchRejected(w)

SpecChannel == InitManager /\ [][NextChannel]_vars

(* what happens by itself: timers fire, requests settle, and on this       *)
(* network every socket is closed sooner or later; whether a socket opens  *)
(* and whether the user leaves is left open                                *)
ChannelProgress ==
    \/ \E t \in timers : ReconnectTimer(t)
    \/ \E s \in socks, err \in BOOLEAN : SockClosed(s, err)
    \/ \E w \in Windows : FetchResolved(w, SteadySnapshot)
    \/ \E w \in Windows : FetchRejected(w)

SpecChannelFair == SpecChannel /\ WF_vars(ChannelProgress)

(* A reliable network and server: a socket closes only after close() was   *)
(* called on it (with an error event when it was still connecting) and no  *)
(* request fails, while the user changes the page window or leaves.        *)
ClientClosed(s) == s.state \in {"aborting", "closing"}

NextWindow ==
    \/ Mount
    \/ \E n \in {10, 25, 50, 100} : SetContactsPerPage(n)
    \/ NextPage
    \/ Unmount
    \/ \E s \in socks : SockOpened(s)
    \/ \E s \in socks : ClientClosed(s) /\ SockClosed(s, s.state = "aborting")
    \/ \E t \in timers : ReconnectTimer(t)
    \/ \E w \in Windows : FetchResolved(w, SteadySnapshot)

SpecWindow == InitManager /\ [][NextWindow]_vars

(* the same, with contacts_added pushed on the open sockets *)
NextWindowPush ==
    \/ NextWindow
    \/ \E s \in socks : OnMessage(s, Added(1))

SpecWindowPush == InitManager /\ [][NextWindowPush]_vars

(* A scripted delivery: the component is mounted on page 1 with its        *)
(* channel open and nothing in flight, it holds some table and counter,    *)
(* and the messages { updated(r), updated(r), deleted(id) } arrive in one  *)
(* of their three orders.                                                  *)
ReorderScripts(r, id) ==
    {<<Updated(r), Updated(r), Deleted(id)>>,
     <<Updated(r), Deleted(id), Updated(r)>>,
     <<Deleted(id), Updated(r), Updated(r)>>}

InitReorder ==
    /\ impl \in {"component", "inline"}
    /\ lifecycle = "mounted"
    /\ page = 1
    /\ contactsPerPage = InitialPerPage
    /\ contacts \in Pages
    /\ totalContacts \in 0..MaxTotal
    /\ loading = FALSE
    /\ message = ""
    /\ isError = FALSE
    /\ effects = <<NewEffect(1, InitialPerPage)>>
    /\ socks = {[owner |-> 1, n |-> 0, state |-> "open"]}
    /\ wsCurrent = [owner |-> 1, n |-> 0]
    /\ timers = {}
    /\ CampaignIdle
    /\ fetches = [w \in Windows |-> 0]
    /\ puts = [id \in Ids |-> <<>>]
    /\ AxiosInit
    /\ tz = Utc
    /\ UploadFresh
    /\ \E r \in UpdatePayload, id \in Ids :
          /\ script \in ReorderScripts(r, id)
          /\ scenario = [kind |-> "reorder", table |-> contacts,
                         total |-> totalContacts, r |-> r, id |-> id,
                         order |-> script]

(* the next scripted message arrives on the open socket *)
Deliver ==
    /\ script # <<>>
    /\ \E s \in socks : Handle(s, Head(script))
    /\ script' = Tail(script)
    /\ UNCHANGED scenario

NextReorder == Deliver

SpecReorder == InitReorder /\ [][NextReorder]_vars

(* A scripted delivery of one message whose event tag is none of the three *)
(* the handler knows, to a mounted component with an open channel.         *)
InitUnknown ==
    /\ impl \in {"component", "inline"}
    /\ lifecycle = "mounted"
    /\ page = 1
    /\ contactsPerPage = InitialPerPage
    /\ contacts \in Pages
    /\ totalContacts \in 0..MaxTotal
    /\ loading = FALSE
    /\ message = ""
    /\ isError = FALSE
    /\ effects = <<NewEffect(1, InitialPerPage)>>
    /\ socks = {[owner |-> 1, n |-> 0, state |-> "open"]}
    /\ wsCurrent = [owner |-> 1, n |-> 0]
    /\ timers = {}
    /\ CampaignIdle
    /\ fetches = [w \in Windows |-> 0]
    /\ puts = [id \in Ids |-> <<>>]
    /\ AxiosInit
    /\ tz = Utc
    /\ UploadFresh
    /\ script = <<Unknown>>
    /\ scenario = [kind |-> "unknown", table |-> contacts,
                   total |-> totalContacts]

SpecUnknown == InitUnknown /\ [][NextReorder]_vars

(* The response cache alone: axios calls, responses and the clock. *)
InitCache == Init /\ impl = "inline" /\ tz = Utc /\ UploadFresh

NextCache ==
    \/ \E t \in Instants : Tick(t)
    \/ \E m \in Methods, u \in Urls : Request(m, u)
    \/ \E m \in Methods, u \in Urls, p \in Payloads : Respond(m, u, p)
    \/ \E m \in Methods, u \in Urls : Fail(m, u)

SpecCache == InitCache /\ [][NextCache]_vars

(* The planner alone: one planning call on restored dates and window, in   *)
(* each time zone.                                                         *)
InitPlan == Init /\ impl = "component" /\ UploadRestored /\ autoClear = FALSE

(* fetchContacts with its GET sent through the interceptors, a remote     *)
(* collection that grows, and the contacts_added frames it broadcasts.     *)

MaxRemote == 3          \* contacts the remote collection grows to

(* `${cfg.contacts}/contacts?page=${page}&per_page=${contactsPerPage}`     *)
(* for the first page of 50                                                *)
ContactsUrl == "/contacts?page=1&per_page=50"

FirstWindow == [page |-> 1, perPage |-> InitialPerPage]

(* the body GET /contacts returns for a collection of n contacts *)
SnapshotOf(n) ==
    [contacts |-> [k \in 1..n |-> [id |-> k, name |-> "a", dnc |-> FALSE]],
     total |-> n]

(* fetchContacts of the first window: setLoading(true); await axios.get(url) *)
(* a fresh cache entry settles the await without a network call and the    *)
(* continuation sets the table from the cached body; otherwise the request *)
(* goes to the network                                                     *)
FetchContacts ==
    IF Cacheable("get") /\ cache[ContactsUrl].has
          /\ Fresh(cache[ContactsUrl], now)
    THEN /\ reply' = [kind |-> "cached", method |-> "get", url |-> ContactsUrl,
                      data |-> cache[ContactsUrl].data]
         /\ contacts' = SnapshotTable(contacts,
                            SnapshotOf(cache[ContactsUrl].data).contacts)
         /\ totalContacts' = SnapshotTotal(SnapshotOf(cache[ContactsUrl].data))
         /\ loading' = FALSE
         /\ UNCHANGED <<wire, fetches>>
    ELSE /\ CanFetch
         /\ OnWire < MaxOnWire
         /\ wire' = [wire EXCEPT ![<<"get", ContactsUrl>>] = @ + 1]
         /\ fetches' = Issued(fetches, FirstWindow)
         /\ loading' = TRUE
         /\ UNCHANGED <<reply, contacts, totalContacts>>

(* ws.current.onopen, its fetchContacts sent through the interceptors *)
OpenedRefresh(s) ==
    /\ s \in socks
    /\ s.state = "connecting"
    /\ socks' = (socks \ {s}) \cup {[s EXCEPT !.state = "open"]}
    /\ FetchContacts
    /\ UNCHANGED <<impl, campaign, upload, lifecycle, page, contactsPerPage, message,
                   isError, wsCurrent, effects, timers, puts, ghost, cache,
                   now, remote>>

(* a contact is created in the remote collection; the service broadcasts   *)
(* contacts_added                                                          *)
RemoteAdded ==
    /\ remote < MaxRemote
    /\ remote' = remote + 1
    /\ script' = Append(script, Added(1))
    /\ UNCHANGED <<impl, campaign, lifecycle, view, conn, fetches, puts, scenario,
                   upload, cache, now, wire, reply>>

(* onmessage for the next broadcast contacts_added frame, its              *)
(* fetchContacts sent through the interceptors                             *)
DeliverAdded ==
    /\ script # <<>>
    /\ \E s \in socks : s.state = "open"
    /\ script' = Tail(script)
    /\ FetchContacts
    /\ UNCHANGED <<impl, campaign, upload, lifecycle, page, contactsPerPage, message,
                   isError, conn, puts, scenario, cache, now, remote>>

(* the service answers a GET with the collection as it now is; the         *)
(* response interceptor stores the body and fetchContacts sets the table   *)
NetworkResponds ==
    /\ wire[<<"get", ContactsUrl>>] > 0
    /\ fetches[FirstWindow] > 0
    /\ wire' = [wire EXCEPT ![<<"get", ContactsUrl>>] = @ - 1]
    /\ cache' = [cache EXCEPT ![ContactsUrl] =
                     [has |-> TRUE, data |-> remote, timestamp |-> now]]
    /\ reply' = [kind |-> "network", method |-> "get", url |-> ContactsUrl,
                 data |-> remote]
    /\ fetches' = [fetches EXCEPT ![FirstWindow] = @ - 1]
    /\ contacts' = SnapshotTable(contacts, SnapshotOf(remote).contacts)
    /\ totalContacts' = SnapshotTotal(SnapshotOf(remote))
    /\ loading' = FALSE
    /\ UNCHANGED <<impl, campaign, upload, lifecycle, page, contactsPerPage, message,
                   isError, conn, puts, ghost, now, remote>>

(* The component just mounted on the first window: the effect body has     *)
(* called connectContactsWs() and fetchContacts(), the cache is empty.     *)
InitRefresh ==
    /\ impl \in {"component", "inline"}
    /\ lifecycle = "mounted"
    /\ page = 1
    /\ contactsPerPage = InitialPerPage
    /\ contacts = <<>>
    /\ totalContacts = 0
    /\ loading = TRUE
    /\ message = ""
    /\ isError = FALSE
    /\ effects = <<NewEffect(1, InitialPerPage)>>
    /\ socks = {NewSocket(1, 0)}
    /\ wsCurrent = [owner |-> 1, n |-> 0]
    /\ timers = {}
    /\ CampaignIdle
    /\ fetches = [w \in Windows |-> IF w = FirstWindow THEN 1 ELSE 0]
    /\ puts = [id \in Ids |-> <<>>]
    /\ cache = [u \in Urls |-> NoEntry]
    /\ now = 0
    /\ wire = [r \in Requests |-> IF r = <<"get", ContactsUrl>> THEN 1 ELSE 0]
    /\ reply = NoReply
    /\ remote \in 1..MaxRemote
    /\ tz = Utc
    /\ UploadFresh
    /\ script = <<>>
    /\ scenario = [kind |-> "refresh"]

NextRefresh ==
    \/ \E s \in socks : OpenedRefresh(s)
    \/ RemoteAdded
    \/ DeliverAdded
    \/ NetworkResponds
    \/ \E t \in Instants : Tick(t)

SpecRefresh == InitRefresh /\ [][NextRefresh]_vars

(* A loaded table of two contacts, none of them do-not-contact, with the   *)
(* selection a restored draft left (none without a draft).                 *)
TwoContacts ==
    [contacts |-> <<[id |-> 1, name |-> "a", dnc |-> FALSE],
                    [id |-> 2, name |-> "a", dnc |-> FALSE]>>,
     total |-> 2]

InitSelect ==
    /\ impl \in {"component", "inline"}
    /\ lifecycle = "mounted"
    /\ page = 1
    /\ contactsPerPage = InitialPerPage
    /\ contacts = TwoContacts.contacts
    /\ totalContacts = TwoContacts.total
    /\ loading = FALSE
    /\ message = ""
    /\ isError = FALSE
    /\ effects = <<NewEffect(1, InitialPerPage)>>
    /\ socks = {[owner |-> 1, n |-> 0, state |-> "open"]}
    /\ wsCurrent = [owner |-> 1, n |-> 0]
    /\ timers = {}
    /\ selectedContacts \in SUBSET Ids
    /\ sends = {}
    /\ fetches = [w \in Windows |-> 0]
    /\ puts = [id \in Ids |-> <<>>]
    /\ AxiosInit
    /\ tz = Utc
    /\ UploadFresh
    /\ script = <<>>
    /\ scenario = [kind |-> "select"]

(* the selection of a session that starts without a draft *)
InitSelectFresh == InitSelect /\ selectedContacts = {}

NextSelect ==
    \/ \E checked \in BOOLEAN : HandleSelectAllClick(checked)
    \/ \E id \in Ids : HandleCheckboxClick(id)
    \/ \E id \in Ids : HandleDncToggle(id)
    \/ \E id \in Ids : PutResolved(id, 1)
    \/ \E s \in socks : OnMessage(s, Deleted(1))
    \/ \E s \in socks : OnMessage(s, Added(1))
    \/ FetchResolved(CurrentWindow, TwoContacts)
    \/ \E op \in Ops : HandleSend(op)
    \/ \E u \in sends : SendResolved(u)
    \/ \E u \in sends : SendRejected(u)

SpecSelect == InitSelectFresh /\ [][NextSelect]_vars

(* One do-not-contact toggle of record 1 whose PUT is on its way, against  *)
(* a service that flips the flag when it handles the PUT.  scenario.remote *)
(* is the flag the service holds, scenario.handled whether the PUT has     *)
(* been handled there.                                                     *)

(* the page as the service holds it *)
RemoteRecord(d) ==
    [contacts |-> <<[id |-> 1, name |-> "a", dnc |-> d]>>, total |-> 1]

(* the click has run handleDncToggle(1): the PUT is pending; the inline    *)
(* implementation has flipped the local flag already                       *)
InitToggle ==
    /\ impl \in {"component", "inline"}
    /\ lifecycle = "mounted"
    /\ page = 1
    /\ contactsPerPage = InitialPerPage
    /\ \E d \in BOOLEAN :
          /\ contacts = <<[id |-> 1, name |-> "a",
                           dnc |-> IF impl = "inline" THEN ~d ELSE d]>>
          /\ scenario = [kind |-> "toggle", remote |-> d, handled |-> FALSE]
    /\ totalContacts = 1
    /\ loading = FALSE
    /\ message = ""
    /\ isError = FALSE
    /\ effects = <<NewEffect(1, InitialPerPage)>>
    /\ socks = {[owner |-> 1, n |-> 0, state |-> "open"]}
    /\ wsCurrent = [owner |-> 1, n |-> 0]
    /\ timers = {}
    /\ CampaignIdle
    /\ fetches = [w \in Windows |-> 0]
    /\ puts = [id \in Ids |-> IF id = 1 THEN <<impl = "inline">> ELSE <<>>]
    /\ AxiosInit
    /\ tz = Utc
    /\ UploadFresh
    /\ script = <<>>

(* PUT /contacts/1/dnc reaches the service: the flag flips; the service    *)
(* may broadcast contact_updated with the new flag                         *)
ServiceTogglesDnc(tell) ==
    /\ scenario.kind = "toggle"
    /\ ~scenario.handled
    /\ scenario' = [scenario EXCEPT !.remote = ~@, !.handled = TRUE]
    /\ script' = IF tell
                 THEN Append(script, Updated([id |-> 1, fields |-> {"dnc"},
                                              name |-> "a",
                                              dnc |-> ~scenario.remote]))
                 ELSE script
    /\ UNCHANGED <<impl, campaign, lifecycle, view, conn, fetches, puts, axios, upload>>

NextToggle ==
    \/ \E tell \in BOOLEAN : ServiceTogglesDnc(tell)
    \/ scenario.handled /\ PutResolved(1, 1)
    \/ Deliver
    \/ \E s \in socks : OnMessage(s, Added(1))
    \/ FetchResolved(CurrentWindow, RemoteRecord(scenario.remote))

SpecToggle == InitToggle /\ [][NextToggle]_vars

(* Paging against a remote collection of BigTotal contacts, each GET       *)
(* answered with the rows of the window it asked for.                      *)

(* the ids on page w.page of pages of w.perPage rows *)
FirstRow(w) == (w.page - 1) * w.perPage + 1
LastRow(w) == Min(w.page * w.perPage, BigTotal)

(* the body of GET /contacts?page=..&per_page=.. *)
PageBody(w) ==
    [contacts |-> [k \in 1..(IF LastRow(w) < FirstRow(w) THEN 0
                            ELSE LastRow(w) - FirstRow(w) + 1) |->
                      [id |-> FirstRow(w) + k - 1, name |-> "a", dnc |-> FALSE]],
     total |-> BigTotal]

NextPaging ==
    \/ Mount
    \/ \E n \in {10, 25, 50, 100} : SetContactsPerPage(n)
    \/ NextPage
    \/ Unmount
    \/ \E s \in socks : SockOpened(s)
    \/ \E w \in Windows : FetchResolved(w, PageBody(w))

SpecPaging == InitManager /\ [][NextPaging]_vars

(* The cache under GETs for several page windows. *)

(* the windows asked for *)
KeyedWindows == {w \in Windows : w.perPage \in {25, 50}}

(* a variant that sends page and per_page apart from the URL *)
UrlOfPathOnly(w) == <<"/contacts">>

(* `${cfg.contacts}/contacts?page=${page}&per_page=${contactsPerPage}`,    *)
(* the template literal as its parts                                       *)
UrlOf(w) == <<"/contacts?page=", w.page, "&per_page=", w.perPage>>

WindowUrls == {UrlOf(w) : w \in KeyedWindows}

(* the body the service returns for window w *)
BodyOf(w) == [window |-> w]

(* axios.get(url) for window w enters the request interceptor *)
GetWindow(w) ==
    /\ IF Cacheable("get") /\ cache[UrlOf(w)].has /\ Fresh(cache[UrlOf(w)], now)
       THEN /\ reply' = [kind |-> "cached", method |-> "get", url |-> UrlOf(w),
                         data |-> cache[UrlOf(w)].data, asked |-> w]
            /\ UNCHANGED wire
       ELSE /\ wire[w] = 0
            /\ SumOver(wire, KeyedWindows) < MaxOnWire
            /\ wire' = [wire EXCEPT ![w] = 1]
            /\ UNCHANGED reply
    /\ UNCHANGED <<manager, upload, remote, cache, now>>

(* the response for window w passes the response interceptor:              *)
(*   cache.set(response.config.url, { data, timestamp: Date.now() })       *)
WindowResponds(w) ==
    /\ wire[w] > 0
    /\ wire' = [wire EXCEPT ![w] = 0]
    /\ cache' = [cache EXCEPT ![UrlOf(w)] =
                     [has |-> TRUE, data |-> BodyOf(w), timestamp |-> now]]
    /\ reply' = [kind |-> "network", method |-> "get", url |-> UrlOf(w),
                 data |-> BodyOf(w), asked |-> w]
    /\ UNCHANGED <<manager, upload, remote, now>>

(* time passes *)
TickKeyed(t) ==
    /\ t \in Instants
    /\ t > now
    /\ now' = t
    /\ UNCHANGED <<manager, upload, remote, cache, wire, reply>>

InitKeyed ==
    /\ impl \in {"component", "inline"}
    /\ Constructed
    /\ script = <<>>
    /\ scenario = NoScenario
    /\ cache = [u \in WindowUrls |-> NoEntry]
    /\ now = 0
    /\ wire = [w \in KeyedWindows |-> 0]
    /\ reply = NoReply
    /\ remote = 1
    /\ tz = Utc
    /\ UploadFresh

NextKeyed ==
    \/ \E w \in KeyedWindows : GetWindow(w)
    \/ \E w \in KeyedWindows : WindowResponds(w)
    \/ \E t \in Instants : TickKeyed(t)

SpecKeyed == InitKeyed /\ [][NextKeyed]_vars

(* The batch pull alone, from the button or the "s" key, with any dates    *)
(* and window the view can hold, the dates possibly missing.               *)
InitPull ==
    /\ impl = "component"
    /\ Constructed
    /\ script = <<>>
    /\ scenario = NoScenario
    /\ AxiosInit
    /\ tz \in Zones
    /\ startDate \in Days \cup {NoDate}
    /\ endDate \in Days \cup {NoDate}
    /\ chunkDays \in SavedChunkDays
    /\ autoClear = FALSE
    /\ NoCall
    /\ TransferIdle

NextPull ==
    \/ pulls = {} /\ HandlePullApi
    \/ pulls = {} /\ HandlePullApiFixed
    \/ ChunkStep
    \/ ChunkReturn
    \/ PullRefused
    \/ PullPosted
    \/ \E u \in pulls : PullResolved(u)
    \/ \E u \in pulls : PullFailed(u)

SpecPull == InitPull /\ [][NextPull]_vars

(* The upload alone: files are chosen, uploaded and cancelled. *)
InitUpload ==
    /\ Init
    /\ impl = "component"
    /\ tz = Utc
    /\ UploadRestored
    /\ startDate = 0
    /\ endDate = 0
    /\ chunkDays = 2 * DefaultWindow

NextUpload ==
    \/ \E list \in UploadPicks : MergeFiles(list)
    \/ OnFileUpload
    \/ \E u \in posts, pct \in Percentages : OnUploadProgress(u, pct)
    \/ \E u \in posts : UploadResolved(u)
    \/ \E u \in posts : UploadFailed(u)
    \/ CancelUpload
    \/ \E u \in posts : UploadCanceled(u)
    \/ \E t \in resets : ProgressReset(t)

SpecUpload == InitUpload /\ [][NextUpload]_vars

(* The selection alone: files are merged in, removed and cleared. *)
NextFiles ==
    \/ \E list \in Picks : MergeFiles(list)
    \/ \E i \in 1..Len(files) : RemoveFile(i)
    \/ ClearFiles

SpecFiles == InitUpload /\ [][NextFiles]_vars

(* The upload together with the batch pull of the same view, which share  *)
(* the loading flag; the "s" key runs handlePullApi whatever loading is.   *)
(* A handler that has started runs to its await before another event.      *)
NextBusy ==
    \/ pc = "idle" /\ NextUpload
    \/ pc = "idle" /\ pulls = {} /\ HandlePullApi
    \/ ChunkStep
    \/ ChunkReturn
    \/ PullPosted
    \/ pc = "idle" /\ \E u \in pulls : PullResolved(u)

SpecBusy == InitUpload /\ [][NextBusy]_vars

NextPlan ==
    \/ ComputeChunks
    \/ PreviewChunks
    \/ ExportChunks
    \/ HandlePullApi
    \/ HandlePullApiFixed
    \/ ChunkStep
    \/ ChunkReturn

SpecPlan == InitPlan /\ [][NextPlan]_vars

(* computeChunks is synchronous: once entered, its loop keeps running *)
SpecPlanFair == SpecPlan /\ WF_vars(ChunkStep) /\ WF_vars(ChunkReturn)

----------------------------------------------------------------------------
(* Properties *)

Runs == 1..Len(effects)

TimersOf(e) == {t \in timers : t.owner = e}

SocksOf(e) == {s \in socks : s.owner = e}

Channels == {s \in socks : s.state \in {"connecting", "open"}}

(* C1: mutation exclusivity: at every moment at most one PUT             *)
(* /contacts/{id}/dnc is in flight per contact id (a second toggle for an  *)
(* id with a pending PUT issues no request).                               *)
C1_MutationExclusivity == \A id \in Ids : Len(puts[id]) <= 1

(* C2: confirm-before-apply: no PUT that is still in flight has already  *)
(* had its flip of the local dnc flag applied.                             *)
C2_ConfirmBeforeApply ==
    \A id \in Ids : \A k \in 1..Len(puts[id]) : ~puts[id][k]

(* C3: when the PUT of a toggle fails, that toggle has changed nothing:  *)
(* its flip was never applied, the failure handler leaves the table and    *)
(* the total as they are, and the error is reported.                       *)
C3_FailedToggleLeavesTable ==
    [][\A id \in Ids, k \in 1..MaxPuts :
          PutRejected(id, k) =>
              /\ ~puts[id][k]
              /\ contacts' = contacts
              /\ totalContacts' = totalContacts
              /\ isError' /\ message' = "dnc_failed"]_vars

(* C4: idempotence of deletion: handling contact_deleted for an id that  *)
(* is not in the table leaves the table and the total unchanged.           *)
C4_DeleteAbsentIsNoOp ==
    [][\A s \in socks, id \in Ids :
          (OnMessage(s, Deleted(id)) /\ ~HasId(contacts, id)) =>
              (contacts' = contacts /\ totalContacts' = totalContacts)]_vars

(* C5: the total contact counter is never negative. *)
C5_TotalNeverNegative == totalContacts >= 0

(* C6: convergence under reordering: once updated(r), updated(r) and     *)
(* deleted(id) have all been applied, in whichever order they arrived, the *)
(* table and the total are those of updated(r) once, then deleted(id) once.*)
C6_ReorderConverges ==
    (scenario.kind = "reorder" /\ script = <<>>) =>
        /\ contacts = DeletedTable(UpdatedTable(scenario.table, scenario.r),
                                   scenario.id)
        /\ totalContacts = DeletedTotal(impl, scenario.total)

(* the delete of a held record arrived first, the two updates of that same *)
(* record (which would have changed it) after it, and all were applied     *)
C6_Witness ==
    /\ scenario.kind = "reorder"
    /\ script = <<>>
    /\ Head(scenario.order) = Deleted(scenario.id)
    /\ scenario.r.id = scenario.id
    /\ HasId(scenario.table, scenario.id)
    /\ UpdatedTable(scenario.table, scenario.r) # scenario.table
    /\ scenario.total > 0

(* C7: teardown: an effect run whose cleanup has run has no pending      *)
(* reconnect timer and no channel open or connecting, in any later state.  *)
C7_TornDownStaysDown ==
    \A e \in Runs :
        effects[e].cleaned =>
            /\ TimersOf(e) = {}
            /\ SocksOf(e) \cap Channels = {}

(* C8: at most one reconnect timer is pending and at most one contacts   *)
(* channel is open or connecting.                                          *)
C8_OneReconnectAtATime ==
    /\ Cardinality(timers) <= 1
    /\ Cardinality(Channels) <= 1

(* C9: backoff: the reconnect timer scheduled for attempt n, the n-th    *)
(* close seen by its effect run, has n in 1..5 and a delay of 500 * n ms.  *)
C9_BackoffDelay ==
    \A t \in timers :
        /\ t.n \in 1..5
        /\ t.n = effects[t.owner].retry
        /\ t.delay = 500 * t.n

(* the timer of the fifth attempt is pending, after four shorter ones *)
C9_Witness ==
    \E t \in timers : t.n = 5 /\ t.delay = 2500

(* C10: degraded mode: a run that was not torn down and whose fifth      *)
(* reconnect attempt has failed is degraded, and a degraded run has made   *)
(* exactly five attempts, has no reconnect timer pending and no channel.   *)
C10_DegradedIsTerminal ==
    \A e \in Runs :
        /\ effects[e].degraded =>
              /\ effects[e].retry = 5
              /\ TimersOf(e) = {}
              /\ SocksOf(e) = {}
        /\ (/\ ~effects[e].cleaned
            /\ effects[e].retry = 5
            /\ TimersOf(e) = {}
            /\ SocksOf(e) = {}) => effects[e].degraded

(* a run that is still mounted has fallen back to HTTP *)
C10_Witness ==
    \E e \in Runs : effects[e].degraded /\ ~effects[e].cleaned


(* C11: whenever a channel that had reached open closes or errors, the     *)
(* run schedules its reconnect as attempt 1, with a delay of 500 ms,       *)
(* however many attempts failed before that connection was made.           *)
C11_ConnectedCloseRestartsBackoff ==
    [][\A s \in socks, err \in BOOLEAN :
          (s.state = "open" /\ SockClosed(s, err)) =>
              \E t \in timers' \ timers :
                  t.owner = s.owner /\ t.n = 1 /\ t.delay = 500]_vars

(* C12: at every moment at most one GET /contacts request per identical    *)
(* page window (page, per_page) is in flight.                              *)
C12_OneRequestPerWindow == \A w \in Windows : fetches[w] <= 1

(* C13: a failed snapshot fetch leaves the held rows and the total as they *)
(* were; it sets the error message and flag and clears the loading flag.   *)
C13_FailedFetchKeepsTable ==
    [][\A w \in Windows :
          FetchRejected(w) =>
              /\ contacts' = contacts
              /\ totalContacts' = totalContacts
              /\ isError' /\ message' = "fetch_failed" /\ ~loading']_vars

C13_Witness ==
    /\ isError /\ message = "fetch_failed" /\ ~loading
    /\ contacts # <<>>
    /\ totalContacts > 0

(* C20: the held table never has two rows with one id, given snapshots     *)
(* with distinct ids; a step that is not the arrival of a snapshot (a push *)
(* event, a toggle, the outcome of a PUT) adds no id to the table.         *)
C20_DistinctIds ==
    /\ []DistinctIds(contacts)
    /\ [][fetches' = fetches => IdsOf(contacts') \subseteq IdsOf(contacts)]_vars

C20_Witness ==
    /\ Len(contacts) = MaxRows
    /\ \E id \in Ids : puts[id] # <<>>
    /\ \E k \in 1..Len(contacts) : contacts[k].dnc


(* C14: a GET for a URL is answered from the cache, with the payload the   *)
(* entry holds and with no network call, exactly when an entry for that    *)
(* URL exists and is less than 60 seconds old; otherwise the call goes to  *)
(* the network.  The read itself leaves the cache as it is.                *)
C14_CacheTTL ==
    [][\A u \in Urls :
          Request("get", u) =>
              LET e == cache[u]
                  hit == e.has /\ now - e.timestamp < 60000
              IN  /\ cache' = cache
                  /\ hit => /\ wire' = wire
                            /\ reply' = [kind |-> "cached", method |-> "get",
                                         url |-> u, data |-> e.data]
                  /\ ~hit => /\ wire'[<<"get", u>>] = wire[<<"get", u>>] + 1
                             /\ reply' = reply]_vars

C14_Witness ==
    /\ reply.kind = "cached"
    /\ cache[reply.url].has
    /\ reply.data = cache[reply.url].data
    /\ now - cache[reply.url].timestamp = 59999

(* C15: a request whose method is not GET always goes to the network and   *)
(* neither its request nor its response changes the cache, even when a     *)
(* fresh entry is held for its URL.                                        *)
C15_WritesBypassCache ==
    [][\A m \in Methods \ {"get"}, u \in Urls :
          /\ Request(m, u) =>
                /\ cache' = cache
                /\ wire'[<<m, u>>] = wire[<<m, u>>] + 1
                /\ reply' = reply
          /\ \A p \in Payloads :
                Respond(m, u, p) =>
                    /\ cache' = cache
                    /\ reply' = [kind |-> "network", method |-> m,
                                 url |-> u, data |-> p]]_vars

C15_Witness ==
    /\ reply.kind = "network"
    /\ reply.method = "put"
    /\ cache[reply.url].has
    /\ now - cache[reply.url].timestamp < 60000
    /\ cache[reply.url].data # reply.data


(* the number of days a chunk spans, both ends included *)
Span(c) == c.end_date - c.start_date + 1

(* a planning call that has returned, for start <= end and a window of a   *)
(* whole number of days in 1..30                                           *)
Planned == pc = "done" /\ startDate <= endDate /\ days \in WholeWindows

(* C16: for start <= end and a window of 1..30 days the returned chunks    *)
(* are ascending and cover [start, end] exactly: the first starts at       *)
(* start, the last ends at end, no chunk ends before it starts, and each   *)
(* next chunk starts the day after the previous one ends.                  *)
C16_ChunksCoverRange ==
    Planned =>
        /\ chunks # <<>>
        /\ chunks[1].start_date = startDate
        /\ chunks[Len(chunks)].end_date = endDate
        /\ \A k \in 1..Len(chunks) : chunks[k].start_date <= chunks[k].end_date
        /\ \A k \in 1..(Len(chunks) - 1) :
              chunks[k + 1].start_date = chunks[k].end_date + 1

(* C17: for start <= end and a window of w days, w in 1..30, the plan has  *)
(* ceil((end - start + 1) / w) chunks, every chunk but the last spans w    *)
(* days and the last spans 1..w days and ends at end.                      *)
C17_ChunkSizes ==
    Planned =>
        LET w == days \div 2
            n == endDate - startDate + 1
        IN  /\ Len(chunks) = CeilDiv(n, w)
            /\ \A k \in 1..(Len(chunks) - 1) : Span(chunks[k]) = w
            /\ chunks # <<>> =>
                  /\ Span(chunks[Len(chunks)]) \in 1..w
                  /\ chunks[Len(chunks)].end_date = endDate


Callers == {"previewChunks", "exportChunks", "handlePullApi", "handlePullApiFixed"}

(* C18: whatever number chunkDays holds, every caller passes a window      *)
(* clamped into 1..30 days, each iteration moves the cursor forward, and   *)
(* the loop of computeChunks, once entered, returns.                       *)
C18_PlannerTerminates ==
    /\ [](caller \in Callers /\ pc # "rejected" =>
              days >= 2 * 1 /\ days <= 2 * 30)
    /\ [][ChunkStep => cur' > cur]_vars
    /\ (pc = "loop") ~> (pc = "done")

C18_Witness ==
    /\ pc = "done"
    /\ caller = "handlePullApi"
    /\ chunkDays < 0
    /\ Len(chunks) > 1

(* C19: computeChunks called with start > end returns the empty sequence:  *)
(* the loop body never runs and the call returns.                          *)
C19_EmptyWhenReversed ==
    (caller = "computeChunks" /\ startDate > endDate) =>
        /\ chunks = <<>>
        /\ pc \in {"loop", "done"}

C19_Witness ==
    /\ caller = "computeChunks"
    /\ startDate > endDate
    /\ pc = "done"
    /\ chunks = <<>>


(* C22: when the reconnect timer of attempt n fires, a new connection is   *)
(* attempted only if n < 5; the timer of attempt 5 opens no channel and    *)
(* puts the run in the degraded state, so a run makes at most 4 reconnect  *)
(* attempts after its first connection attempt.                            *)
C22_FifthTimerDegrades ==
    [][\A t \in timers :
          ReconnectTimer(t) =>
              /\ t.n < 5 => NewSocket(t.owner, t.n) \in socks'
              /\ t.n >= 5 => /\ socks' = socks
                             /\ effects'[t.owner].degraded]_vars

(* the latest run has given up reconnecting and the component is mounted *)
DegradedLive == live /\ effects # <<>> /\ effects[Current].degraded

(* C23: in the degraded state the snapshot fetch is invoked again and      *)
(* again until teardown: whenever the run is degraded and no request is in *)
(* flight, a fetch is issued later on or the component is torn down.       *)
C23_DegradedPolls ==
    (DegradedLive /\ InFlight = 0) ~> (~live \/ InFlight > 0)

(* C24: whenever a contacts socket opens, that step issues exactly one     *)
(* snapshot fetch, for the page window that is current at that moment.     *)
C24_OpenFetchesCurrentWindow ==
    [][\A s \in socks :
          SockOpened(s) => fetches' = Issued(fetches, CurrentWindow)]_vars


(* C25: handling contacts_added changes neither the table nor the total;   *)
(* it issues one fetch of the page window that is current when the event   *)
(* is handled.                                                             *)
C25_AddedOnlyRefetches ==
    [][\A s \in socks :
          OnMessage(s, Added(1)) =>
              /\ contacts' = contacts
              /\ totalContacts' = totalContacts
              /\ fetches' = Issued(fetches, CurrentWindow)]_vars


(* C26: handling contact_updated(record) keeps the length and order of the *)
(* table; the entry with the record's id takes every field present in the  *)
(* record and keeps its other fields, every other entry and the total are  *)
(* unchanged (so nothing changes when the id is not held); handling the    *)
(* same message again changes nothing more.                                *)
C26_UpdateMerges ==
    [][\A s \in socks, d \in UpdatePayload :
          Handle(s, Updated(d)) =>
              /\ Len(contacts') = Len(contacts)
              /\ \A k \in 1..Len(contacts) :
                    IF contacts[k].id = d.id
                    THEN /\ contacts'[k].id = d.id
                         /\ contacts'[k].name =
                               IF "name" \in d.fields THEN d.name
                               ELSE contacts[k].name
                         /\ contacts'[k].dnc =
                               IF "dnc" \in d.fields THEN d.dnc
                               ELSE contacts[k].dnc
                    ELSE contacts'[k] = contacts[k]
              /\ totalContacts' = totalContacts
              /\ UpdatedTable(contacts', d) = contacts']_vars

C26_Witness ==
    /\ scenario.kind = "reorder"
    /\ Len(script) = 2
    /\ scenario.order[1].event = "contact_updated"
    /\ scenario.r.fields = {"dnc"}
    /\ Len(contacts) = MaxRows
    /\ contacts # scenario.table

(* C27: handling contact_deleted(id) for an id held in the table removes   *)
(* exactly that entry, keeps the other entries in order, and lowers the    *)
(* total by one, except that a total of 0 stays 0.                         *)
C27_DeleteRemovesOne ==
    [][\A s \in socks, id \in Ids :
          (OnMessage(s, Deleted(id)) /\ HasId(contacts, id)) =>
              /\ \E k \in 1..Len(contacts) :
                    /\ contacts[k].id = id
                    /\ contacts' = Without(contacts, k)
              /\ totalContacts' = IF totalContacts = 0 THEN 0
                                  ELSE totalContacts - 1]_vars

(* C28: when a successful snapshot fetch is applied the table is exactly   *)
(* the list of the response and the total is the total the response        *)
(* reports, also when it reports 0.                                        *)
C28_SnapshotReplaces ==
    [][\A w \in Windows, data \in Snapshots :
          FetchResolved(w, data) =>
              /\ contacts' = data.contacts
              /\ totalContacts' = data.total]_vars

(* C29: a push message with any other event tag leaves table and total     *)
(* unchanged and is reported to the user as an error of its own.           *)
C29_UnknownReported ==
    (scenario.kind = "unknown" /\ script = <<>>) =>
        /\ contacts = scenario.table
        /\ totalContacts = scenario.total
        /\ isError
        /\ message = "unknown_event"


(* C30: cancelUpload aborts the upload in progress and at once sets        *)
(* progress to 0 and loading to false; from then on nothing the aborted    *)
(* request still runs (its catch and finally blocks, the timer its finally *)
(* block sets) changes progress, and none of this changes the selected     *)
(* files.                                                                  *)
C30_CancelStopsProgress ==
    [][/\ (CancelUpload /\ controllerRef # 0) =>
              /\ progress' = 0
              /\ ~uploadLoading'
              /\ files' = files
              /\ \A u \in posts' : u.id = controllerRef => u.aborted
       /\ \A u \in posts :
              UploadCanceled(u) => (progress' = progress /\ files' = files)
       /\ \A t \in resets :
              (t.canceled /\ ProgressReset(t)) =>
                  (progress' = progress /\ files' = files)]_vars


(* every contacts_added frame has been handled and no GET is in flight *)
Refreshed ==
    /\ scenario.kind = "refresh"
    /\ script = <<>>
    /\ wire[<<"get", ContactsUrl>>] = 0
    /\ \A s \in socks : s.state = "open"

(* C21: once the fetches triggered by the push events have completed and   *)
(* no further event occurs, the table and the total are the remote         *)
(* collection's current page and total: a refresh is never answered with   *)
(* data older than the change it is meant to pick up.                      *)
C21_RefreshConverges ==
    Refreshed => /\ contacts = SnapshotOf(remote).contacts
                 /\ totalContacts = remote


(* C31: the cache is keyed by the whole request URL, page and page size    *)
(* included: a reply served from the cache for a request of one window     *)
(* carries the body that was stored for that same window.                  *)
C31_CacheKeyedByWindow ==
    reply.kind = "cached" => reply.data.window = reply.asked

(* a window is answered from the cache while another window's body is      *)
(* stored and fresh as well                                                *)
C31_Witness ==
    /\ reply.kind = "cached"
    /\ \E w \in KeyedWindows :
          /\ w # reply.asked
          /\ cache[UrlOf(w)].has
          /\ Fresh(cache[UrlOf(w)], now)
          /\ cache[UrlOf(w)].data.window = w


(* C32: the table ends up showing the page the user is on: once every      *)
(* fetch in flight has completed, the table holds the rows of the current  *)
(* (page, pageSize), also when fetches for several windows overlapped.     *)
C32_TableShowsCurrentWindow ==
    (live /\ InFlight = 0) => contacts = PageBody(CurrentWindow).contacts


(* C33: a confirmed do-not-contact toggle leaves the local flag equal to   *)
(* the remote flag: once the PUT has succeeded, every fetch in flight has  *)
(* been applied and every pushed event has been handled, the record's      *)
(* local dnc value is the value the service holds.                         *)
C33_ToggleAgrees ==
    (/\ scenario.kind = "toggle"
     /\ scenario.handled
     /\ puts[1] = <<>>
     /\ InFlight = 0
     /\ script = <<>>) => contacts[1].dnc = scenario.remote


(* the id is a row of the table that is not do-not-contact *)
Sendable(id) == id \in Selectable(contacts)

(* C34: no campaign is sent to a do-not-contact record: every id in the    *)
(* selection is a row of the table with dnc = false, so the contact_ids of *)
(* a send-now or schedule request hold no id that is do-not-contact        *)
(* locally or was deleted.                                                 *)
C34_NoSendToDnc ==
    [][\A op \in Ops :
          (HandleSend(op) /\ sends' # sends) =>
              \A id \in selectedContacts : Sendable(id)]_vars

(* C35: at most one campaign request is in flight at a time: loading stays *)
(* true from the moment a request is issued until it resolves, also when a *)
(* contacts fetch completes in between.                                    *)
C35_OneSendInFlight ==
    /\ Cardinality(sends) <= 1
    /\ (live /\ sends # {}) => loading


(* both dates are set and the start is not after the end *)
ValidRange ==
    /\ startDate # NoDate
    /\ endDate # NoDate
    /\ ParseDate(startDate) <= ParseDate(endDate)

(* C37: a batch pull is requested only for a valid range: the POST is      *)
(* issued only when both dates are set and start <= end, and its chunk     *)
(* list is then non-empty; with a missing or inverted range no request is  *)
(* issued and an error message is set; once the request has resolved,      *)
(* successfully or not, loading is false again.                            *)
C37_PullOnlyForValidRange ==
    [][/\ PullPosted => (ValidRange /\ \A u \in pulls' \ pulls : u.chunks # <<>>)
       /\ PullRefused => (~ValidRange /\ pulls' = pulls
                             /\ uploadMessage' = "invalid_dates")
       /\ ~ValidRange => pulls' \subseteq pulls
       /\ \A u \in pulls :
              (PullResolved(u) \/ PullFailed(u)) => ~uploadLoading']_vars

(* a pull over several days was posted and has failed; another one over    *)
(* the same range is being planned                                         *)
C37_Witness ==
    /\ ValidRange
    /\ startDate < endDate
    /\ uploadMessage = "schedule_failed"
    /\ ~uploadLoading
    /\ pulls = {}
    /\ pc = "loop"


(* C36: whenever an upload request is in flight and has not been aborted,  *)
(* loading is true and controllerRef holds that request's AbortController, *)
(* so the upload can be cancelled and no second upload can be started.     *)
C36_UploadHoldsLoading ==
    pc = "idle" =>
        \A u \in posts : ~u.aborted => (uploadLoading /\ controllerRef = u.id)


(* C38: after any sequence of mergeFiles calls, chip deletions and clears, *)
(* every selected file has an extension in {csv, xlsx, txt} and a size of  *)
(* at most 25 MB, no two selected files have the same name and size, and   *)
(* the summed size is at most 100 MB; a merge that would push the sum      *)
(* above 100 MB leaves the selection exactly as it was.                    *)
C38_SelectionWithinLimits ==
    [][/\ \A k \in 1..Len(files') :
              /\ Ext(files'[k].name) \in {"csv", "xlsx", "txt"}
              /\ files'[k].size <= 25
       /\ \A k, l \in 1..Len(files') :
              (files'[k].name = files'[l].name /\ files'[k].size = files'[l].size)
                  => k = l
       /\ TotalMB(files') <= 100
       /\ \/ files' = files
          \/ \A list \in Picks :
                 MergeFiles(list) =>
                     \A k \in 1..Len(list) :
                        (Ext(list[k].name) \in {"csv", "xlsx", "txt"}
                            /\ list[k].size <= 25)
                            => \E l \in 1..Len(files') : files'[l] = list[k]]_vars

(* four files of 25 MB are selected, one of them with an upper-case        *)
(* extension: any further file would pass the limit                        *)
C38_Witness ==
    /\ Len(files) = 4
    /\ TotalMB(files) = 100
    /\ \E k \in 1..Len(files) : files[k].name = <<"b", "XLSX">>

=============================================================================
